---- MODULE Spec2Model ----
(***************************************************************************)
(* NeedRepository (server/db/repo/need.go): the needs and needs_images     *)
(* tables, the read-only categories and organizations tables reached       *)
(* through the collaborator repositories, and the repository's operations. *)
(***************************************************************************)
EXTENDS Integers, Sequences, FiniteSets

VARIABLES
    needs,        \* rows of table needs
    images,       \* rows of table needs_images
    nextNeedID,   \* serial of needs.id
    nextImageID,  \* serial of needs_images.id
    now,          \* the database clock, now()
    ret,          \* the last completed call: its arguments and what it returned
    supplied,     \* the Need each stored row was created from, as the caller passed it
    g,            \* a Get in progress, between two of its statements
    coexisted     \* every <<need row, image rows of that need>> the store has held

vars == <<needs, images, nextNeedID, nextImageID, now, ret, supplied, g, coexisted>>

(* ------------------------------ bounds --------------------------------- *)
MaxNeeds == 2
MaxImages == 2
MaxClock == 2

(* ------------------------------ values --------------------------------- *)
\* model.NeedStatusActive and one other status of the enumeration.
NeedStatusActive == "ACTIVE"
NeedStatusInactive == "INACTIVE"
Statuses == {NeedStatusActive, NeedStatusInactive}

\* updated_at of a row that was never updated (SQL NULL).
NullTime == 0 - 1

\* Titles callers supply: empty, white space only, plain, padded on both sides,
\* and with an inner space.
IsSpace(c) == c = " "
Titles == { <<>>, <<" ", " ">>, <<"a">>, <<" ", "a", " ">>, <<"a", " ", "a">> }

\* The business fields a caller supplies, two samples that differ in every field.
Payload1 ==
    [description |-> "d1", required_qtd |-> 10, reached_qtd |-> 3, due_date |-> 7, unit |-> "kg"]
Payload2 ==
    [description |-> "d2", required_qtd |-> 20, reached_qtd |-> 4, due_date |-> 8, unit |-> "un"]
Payloads == {Payload1, Payload2}

\* The categories and organizations tables: not written by this repository.
Categories == { [id |-> 1, name |-> "cat1"], [id |-> 2, name |-> "cat2"] }
Organizations == { [id |-> 1, name |-> "org1"], [id |-> 2, name |-> "org2"] }
CategoryIDs == {c.id : c \in Categories} \cup {3}
OrganizationIDs == {o.id : o \in Organizations} \cup {3}
NeedIDs == 1..(MaxNeeds + 1)
ImageIDs == 1..(MaxImages + 1)
W == <<needs, images, nextNeedID, nextImageID, now>>

\* A model.Need as a caller passes it to Create or Update.
NeedArg(id, cat, org, title, p, status) ==
    [id |-> id, category_id |-> cat, organization_id |-> org, title |-> title,
     description |-> p.description, required_qtd |-> p.required_qtd,
     reached_qtd |-> p.reached_qtd, due_date |-> p.due_date,
     status |-> status, unit |-> p.unit]

(* ------------------------------ errors --------------------------------- *)
Err(msg, id) == [msg |-> msg, id |-> id]
nil == Err("nil", 0)
ErrNoRows == Err("sql: no rows in result set", 0)
ErrDriver == Err("driver error", 0)
ErrTitle == Err("Deve ser informado um titulo para a Necessidade", 0)
ErrCategory(id) == Err("Nao foi encontrada categoria com ID", id)
ErrOrganization(id) == Err("Nao foi encontrada Organizacao com ID", id)
ErrOrder == Err("Metodo de ordenacao nao reconhecido", 0)
ErrNilDeref == Err("panic: nil pointer dereference", 0)

(* --------------------------- strings.TrimSpace ------------------------- *)
RECURSIVE TrimLeft(_)
TrimLeft(s) ==
    IF Len(s) > 0 /\ IsSpace(Head(s)) THEN TrimLeft(Tail(s)) ELSE s

RECURSIVE TrimRight(_)
TrimRight(s) ==
    IF Len(s) > 0 /\ IsSpace(s[Len(s)]) THEN TrimRight(SubSeq(s, 1, Len(s) - 1)) ELSE s

TrimSpace(s) == TrimRight(TrimLeft(s))

(* --------------------------- collaborators ----------------------------- *)
\* CategoryRepository.Get(id): the row, ErrNoRows when absent, or a driver error.
NilCategory == [id |-> 0, name |-> ""]
CatGet(id, fail) ==
    IF fail THEN [cat |-> NilCategory, err |-> ErrDriver]
    ELSE IF \E c \in Categories : c.id = id
         THEN [cat |-> CHOOSE c \in Categories : c.id = id, err |-> nil]
         ELSE [cat |-> NilCategory, err |-> ErrNoRows]

\* OrganizationRepository.GetBaseOrganization(id), same contract.
ZeroOrganization == [id |-> 0, name |-> ""]
GetBaseOrganization(id, fail) ==
    IF fail THEN [org |-> ZeroOrganization, err |-> ErrDriver]
    ELSE IF \E o \in Organizations : o.id = id
         THEN [org |-> CHOOSE o \in Organizations : o.id = id, err |-> nil]
         ELSE [org |-> ZeroOrganization, err |-> ErrNoRows]

(* ------------------------------ validate ------------------------------- *)
\* fail names the first database call of the handler that the driver fails.
ValidateFails == {"none", "category", "organization", "exec"}

\* A validate that looks the organization up before the category.
validateOrganizationFirst(n, fail) ==
    LET n1 == [n EXCEPT !.title = TrimSpace(n.title)] IN
    IF Len(n1.title) = 0 THEN [n |-> n1, err |-> ErrTitle]
    ELSE LET o == GetBaseOrganization(n1.organization_id, fail = "organization") IN
         IF o.err = ErrNoRows THEN [n |-> n1, err |-> ErrOrganization(n1.organization_id)]
         ELSE IF o.err # nil THEN [n |-> n1, err |-> o.err]
         ELSE LET c == CatGet(n1.category_id, fail = "category") IN
              IF c.err = ErrNoRows
              THEN [n |-> n1, err |-> ErrCategory(n1.category_id)]
              ELSE IF c.err # nil THEN [n |-> n1, err |-> c.err]
              ELSE [n |-> n1, err |-> nil]

validate(n, fail) ==
    LET n1 == [n EXCEPT !.title = TrimSpace(n.title)] IN
    IF Len(n1.title) = 0 THEN [n |-> n1, err |-> ErrTitle]
    ELSE LET c == CatGet(n1.category_id, fail = "category") IN
         IF c.err = ErrNoRows THEN [n |-> n1, err |-> ErrCategory(n1.category_id)]
         ELSE IF c.err # nil THEN [n |-> n1, err |-> c.err]
         ELSE LET o == GetBaseOrganization(n1.organization_id, fail = "organization") IN
              IF o.err = ErrNoRows
              THEN [n |-> n1, err |-> ErrOrganization(n1.organization_id)]
              ELSE IF o.err # nil THEN [n |-> n1, err |-> o.err]
              ELSE [n |-> n1, err |-> nil]

(* ------------------------------- Create -------------------------------- *)
\* Column defaults of table needs for the columns the INSERT does not name.
DefaultCreatedAt(t) == t
DefaultUpdatedAt(t) == NullTime

\* Create that keeps the status the caller supplied.
ForceActiveKeep(n) == n

ForceActive(n) == [n EXCEPT !.status = NeedStatusActive]

\* An INSERT whose quantity arguments are bound in the wrong order.
InsertRowSwapped(n, id, t) ==
    [id |-> id, category_id |-> n.category_id, organization_id |-> n.organization_id,
     title |-> n.title, description |-> n.description,
     required_qtd |-> n.reached_qtd, reached_qtd |-> n.required_qtd,
     due_date |-> n.due_date, status |-> n.status, unit |-> n.unit,
     created_at |-> t, updated_at |-> 0 - 1]

\* The row the INSERT of Create stores for n under the generated id.
InsertRow(n, id, t) ==
    [id |-> id, category_id |-> n.category_id, organization_id |-> n.organization_id,
     title |-> n.title, description |-> n.description,
     required_qtd |-> n.required_qtd, reached_qtd |-> n.reached_qtd,
     due_date |-> n.due_date, status |-> n.status, unit |-> n.unit,
     created_at |-> DefaultCreatedAt(t), updated_at |-> DefaultUpdatedAt(t)]

Create(n, fail) ==
    LET v == validate(n, fail) IN
    IF v.err # nil
    THEN /\ ret' = [op |-> "Create", arg |-> n, fail |-> fail, need |-> v.n, err |-> v.err]
         /\ UNCHANGED W
    ELSE LET n2 == ForceActive(v.n) IN
         IF fail = "exec"
         THEN /\ ret' = [op |-> "Create", arg |-> n, fail |-> fail, need |-> n2, err |-> ErrDriver]
              /\ UNCHANGED W
         ELSE /\ nextNeedID <= MaxNeeds
              /\ needs' = needs \cup {InsertRow(n2, nextNeedID, now)}
              /\ nextNeedID' = nextNeedID + 1
              /\ ret' = [op |-> "Create", arg |-> n, fail |-> fail,
                         need |-> [n2 EXCEPT !.id = nextNeedID], err |-> nil]
              /\ UNCHANGED <<images, nextImageID, now>>

(* ------------------------------- Update -------------------------------- *)
\* An UPDATE that writes organization_id too.
UpdateRowWithOrganization(r, n, t) ==
    IF r.id = n.id
    THEN [r EXCEPT !.category_id = n.category_id, !.organization_id = n.organization_id,
                   !.title = n.title,
                   !.description = n.description, !.required_qtd = n.required_qtd,
                   !.reached_qtd = n.reached_qtd, !.due_date = n.due_date,
                   !.unit = n.unit, !.status = n.status, !.updated_at = t]
    ELSE r

\* The UPDATE of Update applied to one row: the SET list on the row WHERE id = n.id.
UpdateRow(r, n, t) ==
    IF r.id = n.id
    THEN [r EXCEPT !.category_id = n.category_id, !.title = n.title,
                   !.description = n.description, !.required_qtd = n.required_qtd,
                   !.reached_qtd = n.reached_qtd, !.due_date = n.due_date,
                   !.unit = n.unit, !.status = n.status, !.updated_at = t]
    ELSE r

Update(n, fail) ==
    LET v == validate(n, fail) IN
    IF v.err # nil
    THEN /\ ret' = [op |-> "Update", arg |-> n, fail |-> fail, need |-> v.n, err |-> v.err]
         /\ UNCHANGED W
    ELSE IF fail = "exec"
         THEN /\ ret' = [op |-> "Update", arg |-> n, fail |-> fail, need |-> v.n, err |-> ErrDriver]
              /\ UNCHANGED W
         ELSE /\ needs' = {UpdateRow(r, v.n, now) : r \in needs}
              /\ ret' = [op |-> "Update", arg |-> n, fail |-> fail, need |-> v.n, err |-> nil]
              /\ UNCHANGED <<images, nextNeedID, nextImageID, now>>

(* ------------------------- CreateImage / DeleteImage -------------------- *)
\* A model.NeedImage as a caller passes it to CreateImage.
ImageArg(needID, name) == [id |-> 0, need_id |-> needID, name |-> name, url |-> "u"]

CreateImage(i, fail) ==
    IF fail
    THEN /\ ret' = [op |-> "CreateImage", arg |-> i, image |-> i, err |-> ErrDriver]
         /\ UNCHANGED W
    ELSE /\ nextImageID <= MaxImages
         /\ images' = images \cup {[i EXCEPT !.id = nextImageID]}
         /\ nextImageID' = nextImageID + 1
         /\ ret' = [op |-> "CreateImage", arg |-> i,
                    image |-> [i EXCEPT !.id = nextImageID], err |-> nil]
         /\ UNCHANGED <<needs, nextNeedID, now>>

\* A DELETE that leaves the need out of its condition.
DeleteMatchesAnyNeed(i, imageID, needID) == i.id = imageID

\* The rows DELETE FROM needs_images WHERE id = $1 AND need_id = $2 removes.
DeleteMatches(i, imageID, needID) == i.id = imageID /\ i.need_id = needID

DeleteImage(imageID, needID, fail) ==
    IF fail
    THEN /\ ret' = [op |-> "DeleteImage", imageID |-> imageID, needID |-> needID,
                    fail |-> fail, err |-> ErrDriver]
         /\ UNCHANGED W
    ELSE /\ images' = {i \in images : ~DeleteMatches(i, imageID, needID)}
         /\ ret' = [op |-> "DeleteImage", imageID |-> imageID, needID |-> needID,
                    fail |-> fail, err |-> nil]
         /\ UNCHANGED <<needs, nextNeedID, nextImageID, now>>

(* --------------------------------- Get --------------------------------- *)
\* SELECT * FROM needs_images WHERE need_id = $1; (nil, err) when the driver fails.
ImageMatches(i, needID) == i.need_id = needID

getNeedImages(needID, fail) ==
    IF fail THEN [images |-> {}, err |-> ErrDriver]
    ELSE [images |-> {i \in images : ImageMatches(i, needID)}, err |-> nil]

\* r.db.Get(n, "SELECT * FROM needs WHERE id = $1", id)
GetNeedRow(id, fail) ==
    IF fail THEN [found |-> FALSE, err |-> ErrDriver]
    ELSE IF \E r \in needs : r.id = id
         THEN [found |-> TRUE, row |-> CHOOSE r \in needs : r.id = id, err |-> nil]
         ELSE [found |-> FALSE, err |-> ErrNoRows]

\* What the driver fails during one Get, and what *o is when the organization
\* lookup failed: a nil pointer (the dereference panics) or an empty struct.
GetFaults ==
    [need : {FALSE}, images : BOOLEAN, category : BOOLEAN, organization : {FALSE},
     deref : {"ok"}]
    \cup [need : {FALSE}, images : BOOLEAN, category : BOOLEAN, organization : {TRUE},
          deref : {"panic", "zero"}]
    \cup {[need |-> TRUE, images |-> FALSE, category |-> FALSE, organization |-> FALSE,
           deref |-> "ok"]}
NoFault ==
    [need |-> FALSE, images |-> FALSE, category |-> FALSE, organization |-> FALSE,
     deref |-> "ok"]

\* The model.Need under construction in Get: the row's columns and the three
\* fields Get fills in.
NeedOf(row) ==
    [cols |-> row, Images |-> {}, Category |-> NilCategory, Organization |-> ZeroOrganization]
NoNeed == [cols |-> "nil"]

\* A Get that never loads the images.
GetImagesStmtSkipped(n, f) == n

\* n.Images, err = getNeedImages(r.db, n): err is overwritten by the next statement.
GetImagesStmt(n, f) ==
    [n EXCEPT !.Images = getNeedImages(n.cols.id, f.images).images]

\* n.Category, err = r.catRepo.Get(n.CategoryID)
GetCategoryStmt(n, f) ==
    [n EXCEPT !.Category = CatGet(n.cols.category_id, f.category).cat]

\* o, err := r.orgRepo.GetBaseOrganization(n.OrganizationID); n.Organization = *o; return n, nil
GetOrganizationStmt(n, f) ==
    LET o == GetBaseOrganization(n.cols.organization_id, f.organization) IN
    IF o.err # nil /\ f.deref = "panic"
    THEN [need |-> NoNeed, err |-> ErrNilDeref]
    ELSE [need |-> [n EXCEPT !.Organization = o.org], err |-> nil]

GetRet(id, f, lookups, need, err, written) ==
    [op |-> "Get", id |-> id, fault |-> f, lookups |-> lookups, need |-> need, err |-> err,
     written |-> written]

\* Get as one call that no other call interleaves with.
Get(id, f) ==
    LET r == GetNeedRow(id, f.need) IN
    /\ UNCHANGED W
    /\ IF r.err # nil
       THEN ret' = GetRet(id, f, <<"need">>, NoNeed, r.err, FALSE)
       ELSE LET n1 == GetImagesStmt(NeedOf(r.row), f)
                n2 == GetCategoryStmt(n1, f)
                out == GetOrganizationStmt(n2, f)
            IN ret' = GetRet(id, f, <<"need", "images", "category", "organization">>,
                             out.need, out.err, FALSE)

(* ------------------- Get, one database statement at a time ------------- *)
GetBegin(id, f) ==
    LET r == GetNeedRow(id, f.need) IN
    /\ g.pc = "idle"
    /\ UNCHANGED W
    /\ IF r.err # nil
       THEN /\ ret' = GetRet(id, f, <<"need">>, NoNeed, r.err, FALSE)
            /\ g' = g
       ELSE /\ g' = [pc |-> "images", id |-> id, fault |-> f, n |-> NeedOf(r.row),
                     written |-> FALSE]
            /\ ret' = ret

GetImagesStep ==
    /\ g.pc = "images"
    /\ g' = [g EXCEPT !.pc = "category", !.n = GetImagesStmt(g.n, g.fault)]
    /\ UNCHANGED <<W, ret>>

GetCategoryStep ==
    /\ g.pc = "category"
    /\ g' = [g EXCEPT !.pc = "organization", !.n = GetCategoryStmt(g.n, g.fault)]
    /\ UNCHANGED <<W, ret>>

GetOrganizationStep ==
    /\ g.pc = "organization"
    /\ LET out == GetOrganizationStmt(g.n, g.fault) IN
       ret' = GetRet(g.id, g.fault, <<"need", "images", "category", "organization">>,
                     out.need, out.err, g.written)
    /\ g' = [pc |-> "idle"]
    /\ UNCHANGED W

(* ------------------------- GetOrganizationNeeds ------------------------ *)
OrderBys == {"", "id", "updated_at", "bogus"}
Orders == {"", "asc", "desc", "sideways"}
ListFails == {"none", "select", "category", "images"}

\* A fallback to updated_at instead of created_at.
OrderColumnFallbackUpdated(orderBy) ==
    IF orderBy \in {"id", "updated_at"} THEN orderBy ELSE "updated_at"

\* switch orderBy: "id" and "updated_at" pass, anything else becomes "created_at".
OrderColumn(orderBy) ==
    IF orderBy \in {"id", "updated_at"} THEN orderBy ELSE "created_at"

\* The ORDER BY clause built from orderBy and order, or the direction error.
NoOrderBy == [col |-> "", dir |-> ""]
\* A filter that passes the direction on without checking it.
OrderFilterUnchecked(orderBy, order) ==
    IF orderBy # ""
    THEN [err |-> nil,
          filter |-> [col |-> IF orderBy \in {"id", "updated_at"} THEN orderBy ELSE "created_at",
                      dir |-> IF order = "" THEN "asc" ELSE order]]
    ELSE [err |-> nil, filter |-> [col |-> "", dir |-> ""]]

OrderFilter(orderBy, order) ==
    IF orderBy # ""
    THEN LET col == OrderColumn(orderBy) IN
         IF order # ""
         THEN IF order # "asc" /\ order # "desc"
              THEN [err |-> ErrOrder, filter |-> NoOrderBy]
              ELSE [err |-> nil, filter |-> [col |-> col, dir |-> order]]
         ELSE [err |-> nil, filter |-> [col |-> col, dir |-> "asc"]]
    ELSE [err |-> nil, filter |-> NoOrderBy]

\* The value a row is ordered by; NULL orders after every timestamp.
SortKey(r, col) ==
    CASE col = "id" -> r.id
      [] col = "updated_at" -> IF r.updated_at = NullTime THEN MaxClock + 1 ELSE r.updated_at
      [] OTHER -> r.created_at

InOrder(s, filter) ==
    \/ filter = NoOrderBy
    \/ \A i \in 1..(Len(s) - 1) :
        IF filter.dir = "asc"
        THEN SortKey(s[i], filter.col) <= SortKey(s[i + 1], filter.col)
        ELSE SortKey(s[i], filter.col) >= SortKey(s[i + 1], filter.col)

Perms(S) ==
    {s \in [1..Cardinality(S) -> S] : \A i, j \in 1..Cardinality(S) : i # j => s[i] # s[j]}

\* Every answer the database may give to SELECT * FROM needs WHERE organization_id = $1 <filter>.
SelectNeeds(oID, filter) ==
    {s \in Perms({r \in needs : r.organization_id = oID}) : InOrder(s, filter)}

\* The error of the two lookups the loop makes for one row, nil when both succeed.
EnrichErr(r, fail) ==
    LET c == CatGet(r.category_id, fail = "category") IN
    IF c.err # nil THEN c.err ELSE getNeedImages(r.id, fail = "images").err

Enrich(r) ==
    [NeedOf(r) EXCEPT !.Category = CatGet(r.category_id, FALSE).cat,
                      !.Images = getNeedImages(r.id, FALSE).images]

ListRet(oID, orderBy, order, fail, queried, list, err) ==
    [op |-> "GetOrganizationNeeds", oID |-> oID, orderBy |-> orderBy, order |-> order,
     fail |-> fail, queried |-> queried, list |-> list, err |-> err]

GetOrganizationNeeds(oID, orderBy, order, fail) ==
    LET f == OrderFilter(orderBy, order) IN
    /\ UNCHANGED W
    /\ IF f.err # nil
       THEN ret' = ListRet(oID, orderBy, order, fail, FALSE, <<>>, f.err)
       ELSE IF fail = "select"
       THEN ret' = ListRet(oID, orderBy, order, fail, TRUE, <<>>, ErrDriver)
       ELSE \E s \in SelectNeeds(oID, f.filter) :
            LET bad == {i \in 1..Len(s) : EnrichErr(s[i], fail) # nil} IN
            IF bad # {}
            THEN ret' = ListRet(oID, orderBy, order, fail, TRUE, <<>>,
                                EnrichErr(s[CHOOSE i \in bad : \A j \in bad : i <= j], fail))
            ELSE ret' = ListRet(oID, orderBy, order, fail, TRUE,
                                [i \in 1..Len(s) |-> Enrich(s[i])], nil)

\* The database clock advances between statements.
Tick ==
    /\ now < MaxClock
    /\ now' = now + 1
    /\ UNCHANGED <<needs, images, nextNeedID, nextImageID, ret>>

(* ---------------------------- specifications --------------------------- *)
NoCall == [op |-> "none", err |-> nil]
Idle == [pc |-> "idle"]

Init ==
    /\ needs = {}
    /\ images = {}
    /\ nextNeedID = 1
    /\ nextImageID = 1
    /\ now = 0
    /\ ret = NoCall
    /\ supplied = {}
    /\ g = Idle
    /\ coexisted = {}

\* Calls with their arguments drawn from the given sets.
CreateCalls(T, C, O, P, S, F) ==
    \E title \in T, cat \in C, org \in O, p \in P, status \in S, fail \in F :
        Create(NeedArg(0, cat, org, title, p, status), fail)

UpdateCalls(I, T, C, O, P, S, F) ==
    \E id \in I, title \in T, cat \in C, org \in O, p \in P, status \in S, fail \in F :
        Update(NeedArg(id, cat, org, title, p, status), fail)

GetCalls(I, F) == \E id \in I, f \in F : Get(id, f)

CreateImageCalls(I, N, F) ==
    \E needID \in I, name \in N, fail \in F : CreateImage(ImageArg(needID, name), fail)

DeleteImageCalls(I, J, F) ==
    \E imageID \in I, needID \in J, fail \in F : DeleteImage(imageID, needID, fail)

ListCalls(O, B, D, F) ==
    \E oID \in O, orderBy \in B, order \in D, fail \in F :
        GetOrganizationNeeds(oID, orderBy, order, fail)

\* Callers that run one call at a time: no Get is ever in progress.
Alone == UNCHANGED <<g, coexisted, supplied>>

\* The same, keeping for every created need what its caller passed to Create.
Recorded ==
    /\ UNCHANGED <<g, coexisted>>
    /\ supplied' = IF ret'.op = "Create" /\ ret'.err = nil
                   THEN supplied \cup {<<ret'.need.id, ret'.arg>>}
                   ELSE supplied

\* Validation: Create and Update under every title, with a present and an absent
\* category and organization, and the driver failing at each database call.
NextValidate ==
    \/ /\ CreateCalls(Titles, {1, 3}, {1, 3}, {Payload1}, {NeedStatusActive}, ValidateFails)
       /\ Alone
    \/ /\ UpdateCalls(NeedIDs, Titles, {1, 3}, {1, 3}, {Payload2}, {NeedStatusActive},
                      ValidateFails)
       /\ Alone

SpecValidate == Init /\ [][NextValidate]_vars

\* Creation: Create under every title, payload and status, then Get of every id.
NextCreate ==
    \/ /\ CreateCalls(Titles, {1}, {1}, Payloads, Statuses, {"none", "exec"})
       /\ Recorded
    \/ /\ GetCalls(NeedIDs, {NoFault})
       /\ Recorded

SpecCreate == Init /\ [][NextCreate]_vars

\* Update: needs of two organizations, updated under every id, category,
\* organization and status.
NextUpdate ==
    \/ /\ CreateCalls({<<"a">>}, {1}, {1, 2}, {Payload1}, {NeedStatusActive}, {"none"})
       /\ Alone
    \/ /\ UpdateCalls(NeedIDs, {<<"a">>}, {1, 2}, OrganizationIDs, {Payload2}, Statuses,
                      {"none", "exec"})
       /\ Alone

SpecUpdate == Init /\ [][NextUpdate]_vars

\* Images: needs of two categories, images created and deleted under every
\* image id and need id, and Get with the driver failing at each lookup.
NextImages ==
    \/ /\ CreateCalls({<<"a">>}, {1, 2}, {1}, {Payload1}, {NeedStatusActive}, {"none"})
       /\ Alone
    \/ /\ CreateImageCalls(NeedIDs, {"img"}, BOOLEAN)
       /\ Alone
    \/ /\ DeleteImageCalls(ImageIDs, NeedIDs, BOOLEAN)
       /\ Alone
    \/ /\ GetCalls(NeedIDs, GetFaults)
       /\ Alone

SpecImages == Init /\ [][NextImages]_vars

\* Listing: needs of one organization created and updated at different times,
\* listed for that organization and for one without needs under every sort
\* column and direction, and with the driver failing at each database call.
NextList ==
    \/ /\ CreateCalls({<<"a">>}, {1}, {1}, {Payload1}, {NeedStatusActive}, {"none"})
       /\ Alone
    \/ /\ UpdateCalls(NeedIDs, {<<"a">>}, {1}, {1}, {Payload1}, {NeedStatusActive}, {"none"})
       /\ Alone
    \/ /\ Tick
       /\ Alone
    \/ /\ ListCalls({1, 2}, OrderBys, Orders, {"none"})
       /\ Alone
    \/ /\ ListCalls({1}, {"id"}, {"desc"}, ListFails \ {"none"})
       /\ Alone

SpecList == Init /\ [][NextList]_vars

(* Concurrent callers: writes commit between the statements of a Get.      *)
\* The row and the image rows stored for need id.
Snapshot(N, I, id) == <<{r \in N : r.id = id}, {i \in I : i.need_id = id}>>
Snapshots(N, I) == {<<r, {i \in I : i.need_id = r.id}>> : r \in N}

\* A write of another caller: the history of the store grows, and a Get that has
\* read its row and not yet its images notes that its need was written.
Concurrently(A) ==
    /\ A
    /\ coexisted' = coexisted \cup Snapshots(needs', images')
    /\ g' = IF g.pc = "images" /\ Snapshot(needs', images', g.id) # Snapshot(needs, images, g.id)
            THEN [g EXCEPT !.written = TRUE]
            ELSE g
    /\ supplied' = supplied

NextConc ==
    \/ Concurrently(CreateCalls({<<"a">>}, {1}, {1}, {Payload1}, {NeedStatusActive}, {"none"}))
    \/ Concurrently(UpdateCalls({1}, {<<"a">>}, {1}, {1}, {Payload1}, {NeedStatusInactive}, {"none"}))
    \/ Concurrently(CreateImageCalls({1}, {"img"}, {FALSE}))
    \/ Concurrently(DeleteImageCalls(ImageIDs, {1}, {FALSE}))
    \/ /\ \E id \in {1}, f \in {NoFault} : GetBegin(id, f)
       /\ UNCHANGED <<coexisted, supplied>>
    \/ /\ GetImagesStep
       /\ UNCHANGED <<coexisted, supplied>>
    \/ /\ GetCategoryStep
       /\ UNCHANGED <<coexisted, supplied>>
    \/ /\ GetOrganizationStep
       /\ UNCHANGED <<coexisted, supplied>>

SpecConc == Init /\ [][NextConc]_vars

(* ------------------------------- claims -------------------------------- *)
CategoryExists(id) == \E c \in Categories : c.id = id
OrganizationExists(id) == \E o \in Organizations : o.id = id
AllSpace(t) == \A i \in 1..Len(t) : t[i] = " "
\* A Need that passes validation when the driver does not fail.
ValidArg(a) ==
    ~AllSpace(a.title) /\ CategoryExists(a.category_id) /\ OrganizationExists(a.organization_id)

\* C1: whenever Create is called with a title that is not empty after trimming,
\* a category and an organization that exist, whatever status the caller
\* supplied, the Need it returns has status Active; and when the insert went
\* through, the row stored under the returned id has status Active too.
C1_CreateForcesActive ==
    (ret.op = "Create" /\ ValidArg(ret.arg) /\ ret.fail \in {"none", "exec"}) =>
        /\ ret.need.status = NeedStatusActive
        /\ ret.fail = "none" =>
            /\ ret.err = nil
            /\ \E r \in needs : r.id = ret.need.id /\ r.status = NeedStatusActive
            /\ \A r \in needs : r.id = ret.need.id => r.status = NeedStatusActive

\* C1 witness: Create succeeded for a caller that supplied a status other than Active.
C1_Witness ==
    /\ ret.op = "Create"
    /\ ret.err = nil
    /\ ret.arg.status = NeedStatusInactive
    /\ \E r \in needs : r.id = ret.need.id

ValidationErrors ==
    {ErrTitle} \cup {ErrCategory(c) : c \in CategoryIDs}
               \cup {ErrOrganization(o) : o \in OrganizationIDs}

\* C2: a Create or Update whose input fails validation writes nothing, and the
\* error is that of the first failing check in the order title, category,
\* organization: title-required for an empty or white-space title whatever the
\* category, the organization and the state of the driver; category-not-found
\* when the category lookup answers no row; organization-not-found when the
\* category resolved and the organization lookup answers no row.
C2_ValidationFirstErrorNoWrite ==
    [][ ret'.op \in {"Create", "Update"} =>
          LET a == ret'.arg
              e == ret'.err
          IN /\ AllSpace(a.title) => e = ErrTitle
             /\ (~AllSpace(a.title) /\ ~CategoryExists(a.category_id)
                     /\ ret'.fail # "category") => e = ErrCategory(a.category_id)
             /\ (~AllSpace(a.title) /\ CategoryExists(a.category_id)
                     /\ ~OrganizationExists(a.organization_id)
                     /\ ret'.fail \notin {"category", "organization"})
                    => e = ErrOrganization(a.organization_id)
             /\ e \in ValidationErrors =>
                    /\ ~ValidArg(a)
                    /\ needs' = needs
                    /\ images' = images
                    /\ nextNeedID' = nextNeedID
       ]_vars

\* C2 witness: an Update of a stored need with a title that is fine, a category
\* and an organization that both do not exist, answered category-not-found.
C2_Witness ==
    /\ ret.op = "Update"
    /\ ret.err = ErrCategory(3)
    /\ ret.arg.organization_id = 3
    /\ \E r \in needs : r.id = ret.arg.id

\* t is s without its leading and trailing white space.
IsTrimOf(t, s) ==
    \E i \in 1..(Len(s) + 1), j \in 0..Len(s) :
        /\ t = SubSeq(s, i, j)
        /\ \A k \in 1..(i - 1) : s[k] = " "
        /\ \A k \in (j + 1)..Len(s) : s[k] = " "
        /\ Len(t) > 0 => (t[1] # " " /\ t[Len(t)] # " ")

SameBusinessFields(c, a) ==
    /\ c.description = a.description
    /\ c.required_qtd = a.required_qtd
    /\ c.reached_qtd = a.reached_qtd
    /\ c.due_date = a.due_date
    /\ c.unit = a.unit

\* C8 as stated: Get on the id Create returned, with no Update in between, yields
\* the title, description, quantities, due date and unit exactly as the caller
\* supplied them to Create.
C8_RoundTripIdentical ==
    (ret.op = "Get" /\ ret.err = nil) =>
        \A p \in supplied :
            p[1] = ret.id =>
                /\ ret.need.cols.title = p[2].title
                /\ SameBusinessFields(ret.need.cols, p[2])

\* C8 amended: Get on the id Create returned, with no Update in between, yields
\* the description, quantities, due date and unit exactly as supplied to Create,
\* and the supplied title without its leading and trailing white space.
C8_RoundTripTrimmedTitle ==
    (ret.op = "Get" /\ ret.err = nil) =>
        /\ \E p \in supplied : p[1] = ret.id
        /\ \A p \in supplied :
            p[1] = ret.id =>
                /\ IsTrimOf(ret.need.cols.title, p[2].title)
                /\ SameBusinessFields(ret.need.cols, p[2])

\* C8 witness: Get returned a need that was created from a padded title.
C8_Witness ==
    /\ ret.op = "Get"
    /\ ret.err = nil
    /\ \E p \in supplied : p[1] = ret.id /\ p[2].title = <<" ", "a", " ">>

\* C9: a successful Update leaves every stored need with another id as it was,
\* creates no row, and in the row with the supplied id keeps the id, the
\* organization reference and the creation time and stores the supplied status;
\* Update succeeds whenever validation passes and the driver does not fail,
\* also when no stored need has the supplied id, and then changes no need.
C9_UpdateFrame ==
    [][ ret'.op = "Update" =>
          LET a == ret'.arg IN
          /\ (ValidArg(a) /\ ret'.fail = "none") => ret'.err = nil
          /\ ret'.err = nil =>
              /\ {r.id : r \in needs'} = {r.id : r \in needs}
              /\ Cardinality(needs') = Cardinality(needs)
              /\ \A r \in needs : r.id # a.id => r \in needs'
              /\ \A r \in needs :
                    r.id = a.id =>
                        \E r2 \in needs' :
                            /\ r2.id = r.id
                            /\ r2.organization_id = r.organization_id
                            /\ r2.created_at = r.created_at
                            /\ r2.status = a.status
                            /\ r2.category_id = a.category_id
              /\ (\A r \in needs : r.id # a.id) => needs' = needs
              /\ images' = images
              /\ nextNeedID' = nextNeedID
       ]_vars

\* C9 witness: Update succeeded on a stored need with another organization id
\* than the row's and a status other than Active: the returned Need carries the
\* supplied organization, the row keeps its own and has the supplied status.
C9_Witness ==
    /\ ret.op = "Update"
    /\ ret.err = nil
    /\ \E r \in needs :
          /\ r.id = ret.need.id
          /\ r.organization_id # ret.need.organization_id
          /\ r.status = NeedStatusInactive
          /\ ret.arg.status = NeedStatusInactive

\* C3 as stated: once Get has read the need row, a failing image, category or
\* organization lookup ends the call: no later lookup is issued and the lookup's
\* error is returned instead of a Need.
C3_GetAbortsOnLookupError ==
    (/\ ret.op = "Get"
     /\ ~ret.fault.need
     /\ \E r \in needs : r.id = ret.id
     /\ (ret.fault.images \/ ret.fault.category \/ ret.fault.organization))
    => /\ ret.err = ErrDriver
       /\ ret.need = NoNeed
       /\ ret.lookups = IF ret.fault.images THEN <<"need", "images">>
                        ELSE IF ret.fault.category THEN <<"need", "images", "category">>
                        ELSE <<"need", "images", "category", "organization">>

\* C4 as stated: a Need that Get returns for a stored id holds exactly the image
\* rows stored with that need id, the category row its category id names and the
\* base view of the organization row its organization id names.
C4_GetReturnsStoredNeed ==
    (ret.op = "Get" /\ ret.err = nil) =>
        /\ ret.need.cols \in needs
        /\ ret.need.cols.id = ret.id
        /\ ret.need.Images = {i \in images : i.need_id = ret.id}
        /\ ret.need.Category \in Categories
        /\ ret.need.Category.id = ret.need.cols.category_id
        /\ ret.need.Organization \in Organizations
        /\ ret.need.Organization.id = ret.need.cols.organization_id

\* C5: DeleteImage(imageID, needID) changes no need and removes no image row
\* other than the one with that id and that need, at most one row; when the
\* driver does not fail that row is gone afterwards and no error is returned;
\* when no such row is stored the images are unchanged.
C5_DeleteImageFrame ==
    [][ ret'.op = "DeleteImage" =>
          LET hit == {i \in images : i.id = ret'.imageID /\ i.need_id = ret'.needID} IN
          /\ needs' = needs
          /\ nextNeedID' = nextNeedID
          /\ nextImageID' = nextImageID
          /\ images' \subseteq images
          /\ (images \ images') \subseteq hit
          /\ Cardinality(images \ images') <= 1
          /\ hit = {} => images' = images
          /\ ~ret'.fail => (ret'.err = nil /\ images' = images \ hit)
       ]_vars

\* C5 witness: DeleteImage returned no error for the id of a stored image and
\* the id of a need that image does not belong to, and the image is still stored.
C5_Witness ==
    /\ ret.op = "DeleteImage"
    /\ ret.err = nil
    /\ \E i \in images : i.id = ret.imageID /\ i.need_id # ret.needID
    /\ \E r \in needs : r.id = ret.needID

\* The rows of a returned list are in the order of column col, ascending or descending.
ListedInOrder(list, col, dir) ==
    \A i \in 1..(Len(list) - 1) :
        IF dir = "desc"
        THEN SortKey(list[i].cols, col) >= SortKey(list[i + 1].cols, col)
        ELSE SortKey(list[i].cols, col) <= SortKey(list[i + 1].cols, col)

\* The column the claim names for a requested sort column.
ClaimedColumn(orderBy) ==
    IF orderBy = "id" THEN "id"
    ELSE IF orderBy = "updated_at" THEN "updated_at" ELSE "created_at"

\* The list holds each need of organization oID once and nothing else.
ListsNeedsOf(list, oID) ==
    /\ {list[i].cols : i \in 1..Len(list)} = {r \in needs : r.organization_id = oID}
    /\ Len(list) = Cardinality({r \in needs : r.organization_id = oID})

\* C6 as stated: GetOrganizationNeeds returns exactly the needs of the
\* organization, ordered by the requested column when it is id or updated_at and
\* by created_at for every other value, the empty value included.
C6_OrderedForEveryColumn ==
    (ret.op = "GetOrganizationNeeds" /\ ret.err = nil) =>
        /\ ListsNeedsOf(ret.list, ret.oID)
        /\ ListedInOrder(ret.list, ClaimedColumn(ret.orderBy), ret.order)

\* C6 amended: GetOrganizationNeeds never fails because of the sort column: with
\* a direction of "", "asc" or "desc" and no driver failure it succeeds for every
\* column value. On success it returns exactly the needs of the organization,
\* ordered by the requested column when it is id or updated_at and by created_at
\* for every other non-empty value; for the empty value no order is applied.
C6_OrderedForNonEmptyColumn ==
    ret.op = "GetOrganizationNeeds" =>
        /\ (ret.fail = "none" /\ ret.order \in {"", "asc", "desc"}) => ret.err = nil
        /\ ret.err = nil =>
            /\ ListsNeedsOf(ret.list, ret.oID)
            /\ ret.orderBy # "" =>
                   ListedInOrder(ret.list, ClaimedColumn(ret.orderBy), ret.order)

\* C6 witness: a column outside the allowlist listed two needs created at
\* different times, without error.
C6_Witness ==
    /\ ret.op = "GetOrganizationNeeds"
    /\ ret.orderBy = "bogus"
    /\ ret.err = nil
    /\ Len(ret.list) = 2
    /\ ret.list[1].cols.created_at # ret.list[2].cols.created_at
    /\ ret.list[1].cols.updated_at # ret.list[2].cols.updated_at

\* C7: with a non-empty sort column, in the allowlist or not, every direction
\* other than "", "asc" and "desc" is answered with the direction error before
\* any query, the directions "asc" and "desc" never are, and the empty direction
\* orders ascending; with an empty sort column no direction gets the direction
\* error.
C7_DirectionChecked ==
    ret.op = "GetOrganizationNeeds" =>
        /\ (ret.orderBy # "" /\ ret.order \notin {"", "asc", "desc"}) =>
               (ret.err = ErrOrder /\ ~ret.queried /\ ret.list = <<>>)
        /\ (ret.orderBy # "" /\ ret.order \in {"", "asc", "desc"}) => ret.err # ErrOrder
        /\ (ret.orderBy # "" /\ ret.order = "" /\ ret.err = nil) =>
               ListedInOrder(ret.list, ClaimedColumn(ret.orderBy), "asc")
        /\ ret.orderBy = "" => (ret.err # ErrOrder /\ ret.queried)

\* C7 witness: a column outside the allowlist with the direction "sideways" got
\* the direction error while the organization had needs to list.
C7_Witness ==
    /\ ret.op = "GetOrganizationNeeds"
    /\ ret.orderBy = "bogus"
    /\ ret.order = "sideways"
    /\ ret.err = ErrOrder
    /\ \E r \in needs : r.organization_id = ret.oID

\* C10: a Get whose lookups all succeeded and that returns a need row together
\* with an image list that the store never held together was overtaken by a
\* write to that need between its read of the row and its read of the images.
C10_TornReadNeedsInterleavedWrite ==
    (/\ ret.op = "Get"
     /\ ret.err = nil
     /\ ret.fault = NoFault
     /\ <<ret.need.cols, ret.need.Images>> \notin coexisted)
    => ret.written

\* C10 witness: Get returned, all lookups succeeding, a need row with an image
\* list that the store never held together.
C10_Witness ==
    /\ ret.op = "Get"
    /\ ret.err = nil
    /\ ret.fault = NoFault
    /\ <<ret.need.cols, ret.need.Images>> \notin coexisted
    /\ ret.need.Images # {}
    /\ ret.need.cols.updated_at = 0 - 1
====
